---- MODULE Spec2Model ----
(***************************************************************************)
(* State-machine model of the VolView sources:                             *)
(*   - components/SegmentList.vue   (segment list, editing, locks)         *)
(*   - components/tools/polygon/PolygonTool.vue (placing tool, rasterize)  *)
(*   - utils (defer, partition, addEventListenerOnce, asCoroutine)         *)
(***************************************************************************)
EXTENDS Integers, Sequences, FiniteSets, TLC

\* null / undefined of the source: for a Maybe<number>, for a Maybe<string>,
\* and for a missing SegmentMask
Null == -1
NullId == "null"
NoSegment == [value |-> Null]

(***************************************************************************)
(* Bounds and input domains                                                *)
(***************************************************************************)
\* total number of segments the store may hold (caps addSegment)
MaxSegments == 2
\* number of polygon tools the polygon store may hold (caps add)
MaxTools == 3

Groups == {"g1", "g2"}
Values == {1, 2}

\* RGBA colours (bytes)
DefaultColor == <<255, 0, 0, 255>>

VARIABLES
  segs,                \* segmentGroupStore.segmentByGroupID : group -> list of SegmentMask
  activeSegment,       \* paintStore.activeSegment
  groupId,             \* props.groupId of SegmentList
  editingSegmentValue, \* ref editingSegmentValue
  editState,           \* reactive editState {name, color, opacity}
  editDialog,          \* ref editDialog
  currentTool,         \* toolStore.currentTool
  imageId,             \* props.imageId of PolygonTool
  mounted,             \* the PolygonTool component is mounted
  placingToolID,       \* placingTool.id
  tools,               \* the polygon store's tools: records {id, placing, imageID}
  activeSegmentGroupID,\* paintStore.activeSegmentGroupID
  dataIndex,           \* segmentGroupStore.dataIndex : group -> scalars of its image
  slice,               \* sliceInfo.slice ?? 0
  sliceAxis,           \* sliceInfo.axisIndex ?? 0
  last,                \* the handler that ran last and its argument
  calls,               \* the store / library calls the last handler made, in order
  arr,                 \* partition: the list passed in, as it is after the call
  predicate,           \* partition: the elements the predicate holds for
  partitioned,         \* partition: the pair returned (<<>> before the call)
  partInput,           \* partition: the list as it was when passed in
  registrations,       \* addEventListenerOnce: the calls made, {event, callback}
  listeners,           \* the EventTarget's listener list (handlers, in order)
  dispatchStack,       \* dispatchEvent calls in progress: {event, pending}
  dispatched,          \* per registration: dispatches of its event begun since
  invoked,             \* per registration: how often callback ran
  dispatchCount,       \* dispatchEvent calls made from outside any callback
  seenRegistered,      \* per registration: handler was registered when callback ran
  innerResolve,        \* defer: innerResolve is set
  innerReject,         \* defer: innerReject is set
  promise,             \* defer: the promise {state, value}
  deferReturned,       \* defer() has returned {promise, resolve, reject}
  settleCalls,         \* defer: the resolve / reject calls made, in order
  gen,                 \* asCoroutine: the generator object
  coroutine,           \* asCoroutine: the function returned {mode, result}
  coArgs,              \* asCoroutine: the values the function was called with
  coReturned           \* asCoroutine: what the last call returned

segVars == <<segs, activeSegment, groupId, editingSegmentValue, editState, editDialog>>
placingVars == <<currentTool, imageId, mounted, placingToolID, tools>>
rasterVars == <<activeSegmentGroupID, dataIndex, slice, sliceAxis>>
logVars == <<last, calls>>
partVars == <<arr, predicate, partitioned, partInput>>
listenVars == <<registrations, listeners, dispatchStack, dispatched, invoked, seenRegistered,
               dispatchCount>>
deferVars == <<innerResolve, innerReject, promise, deferReturned, settleCalls>>
coVars == <<gen, coroutine, coArgs, coReturned>>
utilVars == <<partVars, listenVars, deferVars, coVars>>
notSegVars == <<placingVars, rasterVars, utilVars>>
notPlacingVars == <<segVars, rasterVars, utilVars>>
notRasterVars == <<segVars, placingVars, utilVars>>
vars == <<segs, activeSegment, groupId, editingSegmentValue, editState, editDialog,
          currentTool, imageId, mounted, placingToolID, tools,
          activeSegmentGroupID, dataIndex, slice, sliceAxis,
          last, calls,
          arr, predicate, partitioned, partInput,
          registrations, listeners, dispatchStack, dispatched, invoked, seenRegistered,
          dispatchCount,
          innerResolve, innerReject, promise, deferReturned, settleCalls,
          gen, coroutine, coArgs, coReturned>>

(***************************************************************************)
(* Helpers                                                                 *)
(***************************************************************************)
\* JavaScript truthiness of a Maybe<number>
Truthy(v) == v # Null /\ v # 0

RECURSIVE SeqSum(_)
SeqSum(s) == IF s = <<>> THEN 0 ELSE Head(s) + SeqSum(Tail(s))

SegValues(list) == {list[i].value : i \in 1..Len(list)}

TotalSegments(s) == LET gs == CHOOSE q \in [1..Cardinality(Groups) -> Groups] :
                                 {q[i] : i \in 1..Cardinality(Groups)} = Groups
                    IN SeqSum([i \in 1..Cardinality(Groups) |-> Len(s[gs[i]])])

(***************************************************************************)
(* utils/color (hex string <-> RGBA), hex string kept as a list of nibbles *)
(***************************************************************************)
rgbaToHexa(c) == [i \in 1..8 |-> IF i % 2 = 1 THEN c[(i + 1) \div 2] \div 16
                                              ELSE c[i \div 2] % 16]
hexaToRGBA(h) == [i \in 1..4 |-> h[2 * i - 1] * 16 + h[2 * i]]

\* what the user can type into the SegmentEditor (name, colour, opacity*255)
EditInputs == {[name |-> "Liver", color |-> rgbaToHexa(<<0, 128, 0, 255>>), opacity |-> 128]}

(***************************************************************************)
(* segmentGroupStore                                                        *)
(***************************************************************************)
makeDefaultSegmentName(v) == "Segment " \o ToString(v)

\* segments computed: segmentByGroupID[groupId] ?? []
segments == segs[groupId]

getSegment(s, g, v) ==
  IF \E i \in 1..Len(s[g]) : s[g][i].value = v
  THEN LET i == CHOOSE k \in 1..Len(s[g]) : s[g][k].value = v IN s[g][i]
  ELSE NoSegment

\* patch is a function from field names to new values
updateSegment(s, g, v, patch) ==
  [s EXCEPT ![g] = [i \in 1..Len(s[g]) |->
      IF s[g][i].value = v
      THEN [f \in DOMAIN s[g][i] |-> IF f \in DOMAIN patch THEN patch[f] ELSE s[g][i][f]]
      ELSE s[g][i]]]

storeDeleteSegment(s, g, v) ==
  [s EXCEPT ![g] = SelectSeq(s[g], LAMBDA seg : seg.value # v)]

storeAddSegment(s, g, v) ==
  [s EXCEPT ![g] = Append(s[g], [value |-> v, name |-> makeDefaultSegmentName(v),
                                  color |-> DefaultColor, visible |-> TRUE,
                                  locked |-> FALSE])]

(***************************************************************************)
(* SegmentList.vue                                                          *)
(***************************************************************************)
\* mutant: the watcher always resets the selection to the first segment
watchSegments_AlwaysReset(segments_, selected) ==
  IF Len(segments_) > 0 THEN segments_[1].value ELSE Null

\* watch(segments, ..., {immediate: true}): the new paintStore.activeSegment
watchSegments(segments_, selected) ==
  LET reset == IF Truthy(selected)
               THEN ~ \E i \in 1..Len(segments_) : segments_[i].value = selected
               ELSE TRUE
  IN IF reset
     THEN (IF Len(segments_) > 0 THEN segments_[1].value ELSE Null)
     ELSE selected

\* a store change followed by the watcher on the segments computed
StoreChanged(newSegs, g) ==
  /\ segs' = newSegs
  /\ activeSegment' = IF newSegs[g] # segs[groupId]
                      THEN watchSegments(newSegs[g], activeSegment)
                      ELSE activeSegment

addNewSegment ==
  /\ TotalSegments(segs) < MaxSegments
  /\ \E v \in Values \ SegValues(segments) :
       /\ StoreChanged(storeAddSegment(segs, groupId, v), groupId)
       /\ last' = [op |-> "addNewSegment", arg |-> Null]
       /\ UNCHANGED notSegVars
  /\ calls' = <<"addSegment">>
  /\ UNCHANGED <<groupId, editingSegmentValue, editState, editDialog>>

\* v-model of the chip list: selectedSegment.set
selectSegment(v) ==
  /\ activeSegment' = v
  /\ last' = [op |-> "selectSegment", arg |-> Null]
  /\ UNCHANGED notSegVars
  /\ calls' = <<"setActiveSegment">>
  /\ UNCHANGED <<segs, groupId, editingSegmentValue, editState, editDialog>>

\* mutant: updateSegment is called without looking the segment up
toggleVisible_NoGuard(value) ==
  /\ StoreChanged(updateSegment(segs, groupId, value, [visible |-> FALSE]), groupId)
  /\ calls' = <<"updateSegment">>
  /\ last' = [op |-> "toggleVisible", arg |-> value]
  /\ UNCHANGED notSegVars
  /\ UNCHANGED <<groupId, editingSegmentValue, editState, editDialog>>

toggleVisible(value) ==
  LET segment == getSegment(segs, groupId, value) IN
  /\ IF segment = NoSegment
     THEN /\ calls' = <<>>
          /\ UNCHANGED <<segs, activeSegment>>
     ELSE /\ StoreChanged(updateSegment(segs, groupId, value,
                                        [visible |-> ~segment.visible]), groupId)
          /\ calls' = <<"updateSegment">>
  /\ last' = [op |-> "toggleVisible", arg |-> value]
  /\ UNCHANGED notSegVars
  /\ UNCHANGED <<groupId, editingSegmentValue, editState, editDialog>>

allVisible == \A i \in 1..Len(segments) : segments[i].visible
allLocked == \A i \in 1..Len(segments) : segments[i].locked

RECURSIVE updateAll(_, _, _, _)
updateAll(s, g, vals, patch) ==
  IF vals = <<>> THEN s
  ELSE updateAll(updateSegment(s, g, Head(vals), patch), g, Tail(vals), patch)

toggleGlobalVisible ==
  LET visible == ~allVisible
      vals == [i \in 1..Len(segments) |-> segments[i].value] IN
  /\ StoreChanged(updateAll(segs, groupId, vals, [visible |-> visible]), groupId)
  /\ calls' = [i \in 1..Len(segments) |-> "updateSegment"]
  /\ last' = [op |-> "toggleGlobalVisible", arg |-> Null]
  /\ UNCHANGED notSegVars
  /\ UNCHANGED <<groupId, editingSegmentValue, editState, editDialog>>

toggleGlobalLocked ==
  LET locked == ~allLocked
      vals == [i \in 1..Len(segments) |-> segments[i].value] IN
  /\ StoreChanged(updateAll(segs, groupId, vals, [locked |-> locked]), groupId)
  /\ calls' = [i \in 1..Len(segments) |-> "updateSegment"]
  /\ last' = [op |-> "toggleGlobalLocked", arg |-> Null]
  /\ UNCHANGED notSegVars
  /\ UNCHANGED <<groupId, editingSegmentValue, editState, editDialog>>

toggleLock(value) ==
  LET seg == getSegment(segs, groupId, value) IN
  /\ IF seg # NoSegment
     THEN /\ StoreChanged(updateSegment(segs, groupId, value,
                                        [locked |-> ~seg.locked]), groupId)
          /\ calls' = <<"updateSegment">>
     ELSE /\ calls' = <<>>
          /\ UNCHANGED <<segs, activeSegment>>
  /\ last' = [op |-> "toggleLock", arg |-> value]
  /\ UNCHANGED notSegVars
  /\ UNCHANGED <<groupId, editingSegmentValue, editState, editDialog>>

\* computed editingSegment, for a given editingSegmentValue
editingSegment(ev) == IF ev = Null THEN NoSegment ELSE getSegment(segs, groupId, ev)

startEditing(value) ==
  LET es == editingSegment(value) IN
  /\ editDialog' = TRUE
  /\ editingSegmentValue' = value
  /\ editState' = IF es = NoSegment THEN editState
                  ELSE [name |-> es.name, color |-> rgbaToHexa(es.color),
                        opacity |-> es.color[4]]
  /\ last' = [op |-> "startEditing", arg |-> Null]
  /\ UNCHANGED notSegVars
  /\ calls' = <<>>
  /\ UNCHANGED <<segs, activeSegment, groupId>>

\* v-model:name / v-model:color / v-model:opacity of the SegmentEditor
setEditState(input) ==
  /\ editState' = input
  /\ last' = [op |-> "setEditState", arg |-> Null]
  /\ UNCHANGED notSegVars
  /\ calls' = <<>>
  /\ UNCHANGED <<segs, activeSegment, groupId, editingSegmentValue, editDialog>>

\* the colour stopEditing writes: rgb of the hex string, alpha of the opacity
editedColor == LET rgba == hexaToRGBA(editState.color)
               IN <<rgba[1], rgba[2], rgba[3], editState.opacity>>

stopEditing(commit) ==
  /\ IF Truthy(editingSegmentValue) /\ commit
     THEN IF getSegment(segs, groupId, editingSegmentValue) # NoSegment
          THEN /\ StoreChanged(updateSegment(segs, groupId, editingSegmentValue,
                                 [name |-> editState.name, color |-> editedColor]),
                               groupId)
               /\ calls' = <<"updateSegment">>
          ELSE \* the store has no such segment: nothing is updated
               /\ calls' = <<"updateSegment">>
               /\ UNCHANGED <<segs, activeSegment>>
     ELSE /\ calls' = <<>>
          /\ UNCHANGED <<segs, activeSegment>>
  /\ editingSegmentValue' = Null
  /\ editDialog' = FALSE
  /\ last' = [op |-> "stopEditing", arg |-> IF commit THEN 1 ELSE 0]
  /\ UNCHANGED notSegVars
  /\ UNCHANGED <<groupId, editState>>

deleteSegment(value) ==
  /\ StoreChanged(storeDeleteSegment(segs, groupId, value), groupId)
  /\ calls' = <<"deleteSegment">>
  /\ last' = [op |-> "deleteSegment", arg |-> Null]
  /\ UNCHANGED notSegVars
  /\ UNCHANGED <<groupId, editingSegmentValue, editState, editDialog>>

deleteEditingSegment ==
  /\ IF Truthy(editingSegmentValue)
     THEN /\ StoreChanged(storeDeleteSegment(segs, groupId, editingSegmentValue), groupId)
          /\ calls' = <<"deleteSegment">>
     ELSE /\ calls' = <<>>
          /\ UNCHANGED <<segs, activeSegment>>
  /\ editingSegmentValue' = Null
  /\ editDialog' = FALSE
  /\ last' = [op |-> "deleteEditingSegment", arg |-> Null]
  /\ UNCHANGED notSegVars
  /\ UNCHANGED <<groupId, editState>>

\* the isolated-dialog writes its v-model when it is dismissed
closeDialog ==
  /\ editDialog
  /\ editDialog' = FALSE
  /\ last' = [op |-> "closeDialog", arg |-> Null]
  /\ UNCHANGED notSegVars
  /\ calls' = <<>>
  /\ UNCHANGED <<segs, activeSegment, groupId, editingSegmentValue, editState>>

\* the parent changes props.groupId; the segments computed changes, the watcher runs
setGroupId(g) ==
  /\ g # groupId
  /\ groupId' = g
  /\ activeSegment' = IF segs[g] # segs[groupId]
                      THEN watchSegments(segs[g], activeSegment)
                      ELSE activeSegment
  /\ last' = [op |-> "setGroupId", arg |-> Null]
  /\ UNCHANGED notSegVars
  /\ calls' = <<>>
  /\ UNCHANGED <<segs, editingSegmentValue, editState, editDialog>>

(***************************************************************************)
(* The template of SegmentList.vue: which handler each control invokes     *)
(***************************************************************************)
\* the segment-editor exists only inside the open dialog, v-if="!!editingSegment"
EditorShown == editDialog /\ editingSegment(editingSegmentValue) # NoSegment

SegmentListEvent ==
  \/ addNewSegment
  \/ \E v \in SegValues(segments) \cup {Null} : selectSegment(v)
  \/ toggleGlobalVisible
  \/ toggleGlobalLocked
  \/ \E v \in SegValues(segments) : toggleLock(v)
  \/ \E v \in SegValues(segments) : toggleVisible(v)
  \/ \E v \in SegValues(segments) :
       ~getSegment(segs, groupId, v).locked /\ startEditing(v)
  \/ \E v \in SegValues(segments) :
       ~getSegment(segs, groupId, v).locked /\ deleteSegment(v)
  \/ EditorShown /\ \E input \in EditInputs : setEditState(input)
  \/ EditorShown /\ deleteEditingSegment
  \/ EditorShown /\ \E commit \in BOOLEAN : stopEditing(commit)
  \/ closeDialog
  \/ \E g \in Groups : setGroupId(g)

\* the controls outside the editor dialog: the two global buttons, the chip list
\* and the groupId prop
SegmentChipListEvent ==
  \/ addNewSegment
  \/ \E v \in SegValues(segments) \cup {Null} : selectSegment(v)
  \/ toggleGlobalVisible
  \/ toggleGlobalLocked
  \/ \E v \in SegValues(segments) : toggleLock(v)
  \/ \E v \in SegValues(segments) : toggleVisible(v)
  \/ \E v \in SegValues(segments) :
       ~getSegment(segs, groupId, v).locked /\ deleteSegment(v)
  \/ \E g \in Groups : setGroupId(g)

\* the store holds one default segment in g1 and none in g2
InitialSegs ==
  [g \in Groups |-> IF g = "g1"
                    THEN <<[value |-> 1, name |-> makeDefaultSegmentName(1),
                            color |-> DefaultColor, visible |-> TRUE,
                            locked |-> FALSE]>>
                    ELSE <<>>]

\* SegmentList is mounted; the watcher runs immediately
SegInit ==
  /\ segs = InitialSegs
  /\ groupId \in Groups
  /\ \E pre \in Values \cup {Null} :
       /\ activeSegment = watchSegments(segs[groupId], pre)
       /\ last = [op |-> "mount", arg |-> pre]
  /\ editingSegmentValue = Null
  /\ editState = [name |-> "", color |-> <<>>, opacity |-> 255]
  /\ editDialog = FALSE
  /\ calls = <<>>

(***************************************************************************)
(* PolygonTool.vue: the placing tool                                        *)
(***************************************************************************)
ToolNames == {"Polygon", "Paint"}
ImageIds == {"img1", "img2"}
NoTool == 0
ToolIDs == 1..MaxTools

isToolActive(tool) == tool = "Polygon"

\* usePlacingAnnotationTool: add / remove / commit work on a pair (id, tools)
\* the id a new tool gets from the store
unusedToolIDs(ts) == {i \in ToolIDs : \A t \in ts : t.id # i}
newToolID(ts) == CHOOSE i \in unusedToolIDs(ts) : \A j \in unusedToolIDs(ts) : i <= j

placingToolAdd(pt, imageID) ==
  IF pt.id # NoTool
  THEN pt          \* add() throws: a placing tool already exists
  ELSE LET id == newToolID(pt.tools) IN
       [id |-> id,
        tools |-> pt.tools \cup {[id |-> id, placing |-> TRUE, imageID |-> imageID]}]

placingToolRemove(pt) ==
  IF pt.id = NoTool THEN pt
  ELSE [id |-> NoTool, tools |-> {t \in pt.tools : t.id # pt.id}]

placingToolCommit(pt) ==
  IF pt.id = NoTool THEN pt
  ELSE [id |-> NoTool,
        tools |-> {IF t.id = pt.id THEN [t EXCEPT !.placing = FALSE] ELSE t : t \in pt.tools}]

\* mutant: the watcher adds without removing the tool it holds
watchActive_NoRemove(pt, active, imageID) ==
  IF active /\ imageID # NullId
  THEN [pt |-> placingToolAdd(pt, imageID), calls |-> <<"add">>]
  ELSE [pt |-> pt, calls |-> <<>>]

\* watchImmediate([isToolActive, imageId], ...)
watchActive(pt, active, imageID) ==
  LET removed == placingToolRemove(pt) IN
  IF active /\ imageID # NullId
  THEN [pt |-> placingToolAdd(removed, imageID), calls |-> <<"remove", "add">>]
  ELSE [pt |-> removed, calls |-> <<"remove">>]

PlacingTool == [id |-> placingToolID, tools |-> tools]

\* room in the store for the tool an add() creates after a remove() / commit()
RoomAfterRemove == Cardinality({t \in tools : t.id # placingToolID}) < MaxTools
RoomAfterCommit == Cardinality(tools) < MaxTools

\* toolStore.currentTool changes; the watcher runs when isToolActive changed
setCurrentTool(t) ==
  /\ mounted
  /\ t # currentTool
  /\ RoomAfterRemove
  /\ currentTool' = t
  /\ IF isToolActive(t) # isToolActive(currentTool)
     THEN LET w == watchActive(PlacingTool, isToolActive(t), imageId) IN
          /\ placingToolID' = w.pt.id
          /\ tools' = w.pt.tools
          /\ calls' = w.calls
     ELSE /\ calls' = <<>>
          /\ UNCHANGED <<placingToolID, tools>>
  /\ last' = [op |-> "setCurrentTool", arg |-> Null]
  /\ UNCHANGED notPlacingVars
  /\ UNCHANGED <<imageId, mounted>>

\* the parent changes props.imageId; the watcher runs
setImageId(i) ==
  /\ mounted
  /\ i # imageId
  /\ RoomAfterRemove
  /\ imageId' = i
  /\ LET w == watchActive(PlacingTool, isToolActive(currentTool), i) IN
       /\ placingToolID' = w.pt.id
       /\ tools' = w.pt.tools
       /\ calls' = w.calls
  /\ last' = [op |-> "setImageId", arg |-> Null]
  /\ UNCHANGED notPlacingVars
  /\ UNCHANGED <<currentTool, mounted>>

onUnmounted ==
  /\ mounted
  /\ mounted' = FALSE
  /\ LET r == placingToolRemove(PlacingTool) IN
       /\ placingToolID' = r.id
       /\ tools' = r.tools
  /\ calls' = <<"remove">>
  /\ last' = [op |-> "onUnmounted", arg |-> Null]
  /\ UNCHANGED notPlacingVars
  /\ UNCHANGED <<currentTool, imageId>>

\* activeToolStore.mergeWithOtherTools(id): the tools in `merged` are joined into id
mergeWithOtherTools(ts, id, merged) == {t \in ts : t \notin merged}

onToolPlaced(mergeKey) ==
  /\ IF imageId # NullId
     THEN /\ RoomAfterCommit
          /\ LET newToolId == placingToolID
                 committed == placingToolCommit(PlacingTool)
                 added == placingToolAdd(committed, imageId) IN
             IF mergeKey /\ newToolId # NoTool
             THEN /\ \E merged \in SUBSET {t \in added.tools :
                                            ~t.placing /\ t.id # newToolId} :
                       tools' = mergeWithOtherTools(added.tools, newToolId, merged)
                  /\ placingToolID' = added.id
                  /\ calls' = <<"commit", "add", "mergeWithOtherTools">>
             ELSE /\ tools' = added.tools
                  /\ placingToolID' = added.id
                  /\ calls' = <<"commit", "add">>
     ELSE /\ calls' = <<>>
          /\ UNCHANGED <<placingToolID, tools>>
  /\ last' = [op |-> "onToolPlaced", arg |-> IF mergeKey THEN 1 ELSE 0]
  /\ UNCHANGED notPlacingVars
  /\ UNCHANGED <<currentTool, imageId, mounted>>

\* the template gives every widget @placed; the widget that is placing
\* (tool.id === placingToolID) is the one that reports a placement
PlacingWidgetShown == mounted /\ \E t \in tools : t.id = placingToolID

PolygonToolEvent ==
  \/ \E t \in ToolNames : setCurrentTool(t)
  \/ \E i \in ImageIds \cup {NullId} : setImageId(i)
  \/ PlacingWidgetShown /\ \E mergeKey \in BOOLEAN : onToolPlaced(mergeKey)
  \/ onUnmounted

\* PolygonTool is mounted on an empty polygon store; the watcher runs immediately
PlacingInit ==
  /\ currentTool \in ToolNames
  /\ imageId \in ImageIds \cup {NullId}
  /\ mounted = TRUE
  /\ LET w == watchActive([id |-> NoTool, tools |-> {}], isToolActive(currentTool), imageId) IN
       /\ placingToolID = w.pt.id
       /\ tools = w.pt.tools

(***************************************************************************)
(* PolygonTool.vue: rasterize                                               *)
(***************************************************************************)
\* image.getExtent() of the labelmap: [imin, imax, jmin, jmax, kmin, kmax]
Extent == <<0, 1, 1, 2, 0, 0>>
\* image.getDimensions()
Dimensions == <<Extent[2] - Extent[1] + 1, Extent[4] - Extent[3] + 1, Extent[6] - Extent[5] + 1>>
NumVoxels == Dimensions[1] * Dimensions[2] * Dimensions[3]
Slices == {0, 1, 2}
Axes == {0, 1, 2}
Background == 0
NoImage == <<>>
EmptyImage == [off \in 0..(NumVoxels - 1) |-> Background]

\* axisDims.splice(axisIdx, 1)
axisDims(axisIdx) ==
  IF axisIdx = 0 THEN <<Dimensions[2], Dimensions[3]>>
  ELSE IF axisIdx = 1 THEN <<Dimensions[1], Dimensions[3]>>
  ELSE <<Dimensions[1], Dimensions[2]>>

\* point.splice(axisIdx, 0, slice)
convertTo3D(a, b, slice_, axisIdx) ==
  IF axisIdx = 0 THEN <<slice_, a, b>>
  ELSE IF axisIdx = 1 THEN <<a, slice_, b>>
  ELSE <<a, b, slice_>>

\* vtk BoundingBox.containsPoint(extent, i, j, k)
containsPoint(extent, ijk) ==
  /\ extent[1] <= ijk[1] /\ ijk[1] <= extent[2]
  /\ extent[3] <= ijk[2] /\ ijk[2] <= extent[4]
  /\ extent[5] <= ijk[3] /\ ijk[3] <= extent[6]

\* vtkImageData.computeOffsetIndex
computeOffsetIndex(ijk) ==
  (ijk[1] - Extent[1]) + (ijk[2] - Extent[3]) * Dimensions[1]
    + (ijk[3] - Extent[5]) * Dimensions[1] * Dimensions[2]

\* pixelData.setTuple(offset, [value]); a typed array drops a write out of range
setTuple(data, offset, value) ==
  IF offset \in DOMAIN data THEN [data EXCEPT ![offset] = value] ELSE data

\* mutant: the write is not checked against the extent
setAtUnsafe_Unchecked(data, slice_, axisIdx, d0, d1, value) ==
  [ok |-> TRUE,
   data |-> setTuple(data, computeOffsetIndex(convertTo3D(d0, d1, slice_, axisIdx)), value)]

\* createGridAccessor(image, slice, axisIdx).setAtUnsafe(d0, d1, value)
setAtUnsafe(data, slice_, axisIdx, d0, d1, value) ==
  LET ijk == convertTo3D(d0, d1, slice_, axisIdx) IN
  IF containsPoint(Extent, ijk)
  THEN [ok |-> TRUE, data |-> setTuple(data, computeOffsetIndex(ijk), value)]
  ELSE [ok |-> FALSE, data |-> data]

\* the cells of the grid (0 <= d0 < size[0], 0 <= d1 < size[1]) a polygon can cover
GridCells(axisIdx) ==
  (0..(axisDims(axisIdx)[1] - 1)) \X (0..(axisDims(axisIdx)[2] - 1))

\* fillPoly(grid, points, value): setAtUnsafe on every cell the polygon covers
RECURSIVE fillPoly(_, _, _, _, _)
fillPoly(data, slice_, axisIdx, cells, value) ==
  IF cells = {} THEN data
  ELSE LET c == CHOOSE x \in cells : TRUE IN
       fillPoly(setAtUnsafe(data, slice_, axisIdx, c[1], c[2], value).data,
                slice_, axisIdx, cells \ {c}, value)

\* rasterize(toolId, segment); cells are the grid cells the polygon of toolId covers
rasterize(segmentValue, cells) ==
  /\ IF activeSegmentGroupID = NullId
     THEN /\ calls' = <<>>
          /\ UNCHANGED dataIndex
     ELSE LET image == dataIndex[activeSegmentGroupID] IN
          IF image = NoImage
          THEN /\ calls' = <<>>
               /\ UNCHANGED dataIndex
          ELSE /\ dataIndex' = [dataIndex EXCEPT ![activeSegmentGroupID] =
                                  fillPoly(image, slice, sliceAxis, cells, segmentValue)]
               /\ calls' = <<"fillPoly", "modified">>
  /\ last' = [op |-> "rasterize", arg |-> segmentValue]
  /\ UNCHANGED notRasterVars
  /\ UNCHANGED <<activeSegmentGroupID, slice, sliceAxis>>

\* useSliceInfo: the view scrolls or changes its axis
setSliceInfo(s, a) ==
  /\ <<s, a>> # <<slice, sliceAxis>>
  /\ slice' = s
  /\ sliceAxis' = a
  /\ last' = [op |-> "setSliceInfo", arg |-> Null]
  /\ UNCHANGED notRasterVars
  /\ calls' = <<>>
  /\ UNCHANGED <<activeSegmentGroupID, dataIndex>>

\* paintStore.activeSegmentGroupID changes
setActiveSegmentGroup(g) ==
  /\ g # activeSegmentGroupID
  /\ activeSegmentGroupID' = g
  /\ last' = [op |-> "setActiveSegmentGroup", arg |-> Null]
  /\ UNCHANGED notRasterVars
  /\ calls' = <<>>
  /\ UNCHANGED <<dataIndex, slice, sliceAxis>>

\* the "Rasterize as..." menu lists the segments of currentSegmentGroup
RasterizeMenuEvent ==
  /\ activeSegmentGroupID # NullId
  /\ \E v \in SegValues(segs[activeSegmentGroupID]) :
       \E cells \in SUBSET GridCells(sliceAxis) : rasterize(v, cells)

RasterInit ==
  /\ activeSegmentGroupID \in Groups \cup {NullId}
  /\ dataIndex = [g \in Groups |-> IF g = "g1" THEN EmptyImage ELSE NoImage]
  /\ slice \in Slices
  /\ sliceAxis \in Axes

(***************************************************************************)
(* utils: partition                                                         *)
(***************************************************************************)
\* longest list passed to partition
MaxLen == 3
Elems == {1, 2, 3}

RECURSIVE ListsUpTo(_, _)
ListsUpTo(S, n) ==
  IF n = 0 THEN {<<>>}
  ELSE LET shorter == ListsUpTo(S, n - 1) IN
       shorter \cup {Append(l, e) : l \in {x \in shorter : Len(x) = n - 1}, e \in S}

\* mutant: the two sides are swapped
forEachPush_Swapped(pred, acc, val) ==
  LET partitionIndex == IF val \in pred THEN 1 ELSE 0 IN
  [acc EXCEPT ![partitionIndex + 1] = Append(@, val)]

\* the callback of arr.forEach: partitioned[predicate(val) ? 0 : 1].push(val)
forEachPush(pred, acc, val) ==
  LET partitionIndex == IF val \in pred THEN 0 ELSE 1 IN
  [acc EXCEPT ![partitionIndex + 1] = Append(@, val)]

RECURSIVE forEach(_, _, _, _)
forEach(pred, a, i, acc) ==
  IF i > Len(a) THEN acc ELSE forEach(pred, a, i + 1, forEachPush(pred, acc, a[i]))

\* partition(predicate, arr): the pair returned and arr as the call leaves it
partition(pred, a) == [partitioned |-> forEach(pred, a, 1, << <<>>, <<>> >>), arr |-> a]

callPartition ==
  /\ partitioned = <<>>
  /\ LET r == partition(predicate, arr) IN
       /\ partitioned' = r.partitioned
       /\ arr' = r.arr
  /\ UNCHANGED <<partInput, predicate>>
  /\ UNCHANGED <<segVars, placingVars, rasterVars, logVars, listenVars, deferVars, coVars>>

PartInit ==
  /\ arr \in ListsUpTo(Elems, MaxLen)
  /\ partInput = arr
  /\ predicate \in SUBSET Elems
  /\ partitioned = <<>>

PartIdle ==
  /\ arr = <<>>
  /\ partInput = <<>>
  /\ predicate = {}
  /\ partitioned = <<>>

(***************************************************************************)
(* utils: addEventListenerOnce, on an EventTarget                           *)
(***************************************************************************)
\* calls of addEventListenerOnce
MaxRegistrations == 2
\* calls of dispatchEvent from outside any callback
MaxDispatches == 2
\* dispatchEvent calls nested in each other
MaxDepth == 3
Events == {"load", "error"}
\* what a callback does: nothing more, or dispatch its event again on the target
Callbacks == {"plain", "redispatch"}

Handlers == 1..Len(registrations)
InList(h, ls) == \E i \in 1..Len(ls) : ls[i] = h

\* target.removeEventListener(event, handler)
removeEventListener(ls, h) == SelectSeq(ls, LAMBDA x : x # h)

\* the listeners a dispatchEvent(event) is about to call
listenersFor(ls, event) == SelectSeq(ls, LAMBDA x : registrations[x].event = event)

\* mutant: the handler does not unregister itself
handler_NoRemove(h, ls) == ls

\* handler of registration h: the listener list that callback() runs with
handler(h, ls) == removeEventListener(ls, h)

countDispatch(d, event) ==
  [h \in 1..Len(d) |-> IF registrations[h].event = event /\ InList(h, listeners)
                       THEN d[h] + 1 ELSE d[h]]

addEventListenerOnce(event, callback) ==
  /\ dispatchStack = <<>>
  /\ Len(registrations) < MaxRegistrations
  /\ registrations' = Append(registrations, [event |-> event, callback |-> callback])
  /\ listeners' = Append(listeners, Len(registrations) + 1)
  /\ dispatched' = Append(dispatched, 0)
  /\ invoked' = Append(invoked, 0)
  /\ seenRegistered' = Append(seenRegistered, FALSE)
  /\ UNCHANGED <<dispatchStack, dispatchCount>>
  /\ UNCHANGED <<segVars, placingVars, rasterVars, logVars, partVars, deferVars, coVars>>

\* target.dispatchEvent(new Event(event)), called from outside any callback
dispatchEvent(event) ==
  /\ dispatchStack = <<>>
  /\ dispatchCount < MaxDispatches
  /\ dispatchCount' = dispatchCount + 1
  /\ dispatchStack' = <<[event |-> event, pending |-> listenersFor(listeners, event)]>>
  /\ dispatched' = countDispatch(dispatched, event)
  /\ UNCHANGED <<registrations, listeners, invoked, seenRegistered>>
  /\ UNCHANGED <<segVars, placingVars, rasterVars, logVars, partVars, deferVars, coVars>>

\* the dispatch on top of the stack calls its next listener, unless it was removed
invokeListener ==
  /\ dispatchStack # <<>>
  /\ LET top == Len(dispatchStack)
         frame == dispatchStack[top]
     IN /\ frame.pending # <<>>
        /\ LET h == Head(frame.pending)
               rest == [dispatchStack EXCEPT ![top].pending = Tail(frame.pending)]
           IN IF ~InList(h, listeners)
              THEN /\ dispatchStack' = rest
                   /\ UNCHANGED <<listeners, dispatched, invoked, seenRegistered>>
              ELSE LET atCallback == handler(h, listeners) IN
                   /\ listeners' = atCallback
                   /\ invoked' = [invoked EXCEPT ![h] = @ + 1]
                   /\ seenRegistered' = [seenRegistered EXCEPT ![h] = @ \/ InList(h, atCallback)]
                   /\ IF registrations[h].callback = "redispatch" /\ top < MaxDepth
                      THEN /\ dispatchStack' =
                                Append(rest, [event |-> frame.event,
                                              pending |-> listenersFor(atCallback, frame.event)])
                           /\ dispatched' =
                                [k \in 1..Len(dispatched) |->
                                   IF registrations[k].event = frame.event /\ InList(k, atCallback)
                                   THEN dispatched[k] + 1 ELSE dispatched[k]]
                      ELSE /\ dispatchStack' = rest
                           /\ UNCHANGED dispatched
  /\ UNCHANGED <<registrations, dispatchCount>>
  /\ UNCHANGED <<segVars, placingVars, rasterVars, logVars, partVars, deferVars, coVars>>

\* the dispatch on top of the stack has called all its listeners and returns
finishDispatch ==
  /\ dispatchStack # <<>>
  /\ dispatchStack[Len(dispatchStack)].pending = <<>>
  /\ dispatchStack' = SubSeq(dispatchStack, 1, Len(dispatchStack) - 1)
  /\ UNCHANGED <<registrations, listeners, dispatched, invoked, seenRegistered, dispatchCount>>
  /\ UNCHANGED <<segVars, placingVars, rasterVars, logVars, partVars, deferVars, coVars>>

ListenIdle ==
  /\ registrations = <<>>
  /\ listeners = <<>>
  /\ dispatchStack = <<>>
  /\ dispatched = <<>>
  /\ invoked = <<>>
  /\ seenRegistered = <<>>
  /\ dispatchCount = 0

(***************************************************************************)
(* utils: defer                                                             *)
(***************************************************************************)
\* resolve / reject calls made on one Deferred
MaxSettleCalls == 3
ResolveValues == {"v1", "v2", "v3"}
RejectReasons == {"e1", "e2"}
Pending == [state |-> "pending", value |-> "undefined"]

\* the resolving functions of a Promise: the first call settles it
promiseResolve(p, v) == IF p.state = "pending" THEN [state |-> "fulfilled", value |-> v] ELSE p
promiseReject(p, r) == IF p.state = "pending" THEN [state |-> "rejected", value |-> r] ELSE p

\* mutant: the executor has not run when defer returns
defer_ExecutorNotRun ==
  [promise |-> Pending, innerResolve |-> FALSE, innerReject |-> FALSE]

\* defer(): new Promise runs its executor at once, which sets innerResolve / innerReject
defer == [promise |-> Pending, innerResolve |-> TRUE, innerReject |-> TRUE]

callDefer ==
  /\ ~deferReturned
  /\ deferReturned' = TRUE
  /\ promise' = defer.promise
  /\ innerResolve' = defer.innerResolve
  /\ innerReject' = defer.innerReject
  /\ UNCHANGED settleCalls
  /\ UNCHANGED <<segVars, placingVars, rasterVars, logVars, partVars, listenVars, coVars>>

\* deferred.resolve(value): if (innerResolve) innerResolve(value)
resolve(value) ==
  /\ deferReturned
  /\ Len(settleCalls) < MaxSettleCalls
  /\ promise' = IF innerResolve THEN promiseResolve(promise, value) ELSE promise
  /\ settleCalls' = Append(settleCalls, [fn |-> "resolve", arg |-> value])
  /\ UNCHANGED <<innerResolve, innerReject, deferReturned>>
  /\ UNCHANGED <<segVars, placingVars, rasterVars, logVars, partVars, listenVars, coVars>>

\* deferred.reject(reason): if (innerReject) innerReject(reason)
reject(reason) ==
  /\ deferReturned
  /\ Len(settleCalls) < MaxSettleCalls
  /\ promise' = IF innerReject THEN promiseReject(promise, reason) ELSE promise
  /\ settleCalls' = Append(settleCalls, [fn |-> "reject", arg |-> reason])
  /\ UNCHANGED <<innerResolve, innerReject, deferReturned>>
  /\ UNCHANGED <<segVars, placingVars, rasterVars, logVars, partVars, listenVars, coVars>>

DeferIdle ==
  /\ innerResolve = FALSE
  /\ innerReject = FALSE
  /\ promise = Pending
  /\ deferReturned = FALSE
  /\ settleCalls = <<>>

(***************************************************************************)
(* utils: asCoroutine                                                       *)
(***************************************************************************)
\* yields in a generator's body
MaxYields == 2
\* calls of the function asCoroutine returns
MaxCoCalls == 4
YieldValues == {"a", "b"}
SentValues == {"x", "y"}
ReturnValue == "r"
Undefined == "undefined"

\* a generator object: its body yields `yields` in turn and then returns `ret`;
\* pos 0 is suspended at the start, pos k suspended at the k-th yield,
\* pos Len(yields) + 1 completed; received are the values its yields evaluated to
Generators ==
  {[yields |-> ys, ret |-> ReturnValue, pos |-> 0, received |-> <<>>, nexts |-> 0] :
     ys \in ListsUpTo(YieldValues, MaxYields)}

\* gen.next(v)
genNext(g, v) ==
  LET n == Len(g.yields)
      counted == [g EXCEPT !.nexts = @ + 1]
      got == IF g.pos >= 1 /\ g.pos <= n
             THEN [counted EXCEPT !.received = Append(@, v)]
             ELSE counted
  IN IF g.pos > n
     THEN [gen |-> counted, result |-> [value |-> Undefined, done |-> TRUE]]
     ELSE IF g.pos = n
     THEN [gen |-> [got EXCEPT !.pos = n + 1], result |-> [value |-> g.ret, done |-> TRUE]]
     ELSE [gen |-> [got EXCEPT !.pos = g.pos + 1],
           result |-> [value |-> g.yields[g.pos + 1], done |-> FALSE]]

NotWrapped == [mode |-> "none", result |-> [value |-> Undefined, done |-> FALSE]]

\* mutant: the done result is not kept, every call goes to the generator
asCoroutine_AlwaysLive(g) ==
  LET r == genNext(g, Undefined) IN
  [gen |-> r.gen, coroutine |-> [mode |-> "live", result |-> r.result]]

\* asCoroutine(gen): the generator after the initial next() and the function returned
asCoroutine(g) ==
  LET r == genNext(g, Undefined) IN
  [gen |-> r.gen,
   coroutine |-> [mode |-> IF r.result.done THEN "done" ELSE "live", result |-> r.result]]

callAsCoroutine ==
  /\ coroutine.mode = "none"
  /\ LET w == asCoroutine(gen) IN
       /\ gen' = w.gen
       /\ coroutine' = w.coroutine
  /\ UNCHANGED <<coArgs, coReturned>>
  /\ UNCHANGED <<segVars, placingVars, rasterVars, logVars, partVars, listenVars, deferVars>>

\* the function returned: () => result, or (value) => gen.next(value)
callCoroutine(value) ==
  /\ coroutine.mode # "none"
  /\ Len(coArgs) < MaxCoCalls
  /\ LET r == IF coroutine.mode = "done"
              THEN [gen |-> gen, result |-> coroutine.result]
              ELSE genNext(gen, value) IN
       /\ gen' = r.gen
       /\ coReturned' = r.result
  /\ coArgs' = Append(coArgs, value)
  /\ UNCHANGED coroutine
  /\ UNCHANGED <<segVars, placingVars, rasterVars, logVars, partVars, listenVars, deferVars>>

CoInit ==
  /\ gen \in Generators
  /\ coroutine = NotWrapped
  /\ coArgs = <<>>
  /\ coReturned = NotWrapped.result

CoIdle ==
  /\ gen = [yields |-> <<>>, ret |-> ReturnValue, pos |-> 0, received |-> <<>>, nexts |-> 0]
  /\ coroutine = NotWrapped
  /\ coArgs = <<>>
  /\ coReturned = NotWrapped.result

(***************************************************************************)
(* Specifications                                                           *)
(***************************************************************************)
\* a subsystem that takes no part in a specification stays as constructed
SegIdle ==
  /\ segs = InitialSegs
  /\ groupId = "g1"
  /\ activeSegment = watchSegments(segs[groupId], Null)
  /\ editingSegmentValue = Null
  /\ editState = [name |-> "", color |-> <<>>, opacity |-> 255]
  /\ editDialog = FALSE
  /\ last = [op |-> "mount", arg |-> Null]
  /\ calls = <<>>

PlacingIdle ==
  /\ currentTool = "Paint"
  /\ imageId = NullId
  /\ mounted = FALSE
  /\ placingToolID = NoTool
  /\ tools = {}

RasterIdle ==
  /\ activeSegmentGroupID = NullId
  /\ dataIndex = [g \in Groups |-> NoImage]
  /\ slice = 0
  /\ sliceAxis = 0

UtilIdle == PartIdle /\ ListenIdle /\ DeferIdle /\ CoIdle

\* SegmentList.vue driven through its template
InitSegmentList == SegInit /\ PlacingIdle /\ RasterIdle /\ UtilIdle
SpecSegmentList == InitSegmentList /\ [][SegmentListEvent]_vars

\* SegmentList.vue with the editor dialog left closed
InitSelection == SegInit /\ PlacingIdle /\ RasterIdle /\ UtilIdle
SpecSelection == InitSelection /\ [][SegmentChipListEvent]_vars

\* the placing tool of PolygonTool.vue driven by its props, the tool store and its widgets
InitPlacing == SegIdle /\ PlacingInit /\ RasterIdle /\ UtilIdle
SpecPlacing == InitPlacing /\ [][PolygonToolEvent]_vars

\* rasterize of PolygonTool.vue, with the locks of SegmentList.vue
InitRasterize == SegIdle /\ PlacingIdle /\ RasterInit /\ UtilIdle
RasterizeNext ==
  \/ RasterizeMenuEvent
  \/ \E s \in Slices, a \in Axes : setSliceInfo(s, a)
  \/ \E g \in Groups \cup {NullId} : setActiveSegmentGroup(g)
  \/ \E v \in SegValues(segments) : toggleLock(v)
  \/ addNewSegment
SpecRasterize == InitRasterize /\ [][RasterizeNext]_vars

\* the handlers called directly, with any argument
InitHandlers ==
  /\ SegInit
  /\ currentTool = "Polygon"
  /\ imageId \in {"img1", NullId}
  /\ mounted = TRUE
  /\ LET w == watchActive([id |-> NoTool, tools |-> {}], isToolActive(currentTool), imageId) IN
       /\ placingToolID = w.pt.id
       /\ tools = w.pt.tools
  /\ activeSegmentGroupID \in Groups \cup {NullId}
  /\ dataIndex = [g \in Groups |-> IF g = "g1" THEN EmptyImage ELSE NoImage]
  /\ slice = 0
  /\ sliceAxis = 2
  /\ UtilIdle

HandlersNext ==
  \/ \E v \in Values : toggleVisible(v)
  \/ \E v \in Values : toggleLock(v)
  \/ \E v \in Values : \E cells \in SUBSET GridCells(sliceAxis) : rasterize(v, cells)
  \/ \E mergeKey \in BOOLEAN : onToolPlaced(mergeKey)
SpecHandlers == InitHandlers /\ [][HandlersNext]_vars

\* partition applied to any list and predicate
InitPartition ==
  SegIdle /\ PlacingIdle /\ RasterIdle /\ PartInit /\ ListenIdle /\ DeferIdle /\ CoIdle
SpecPartition == InitPartition /\ [][callPartition]_vars

\* addEventListenerOnce registrations and dispatches on one EventTarget
InitListener == SegIdle /\ PlacingIdle /\ RasterIdle /\ UtilIdle
ListenerNext ==
  \/ \E e \in Events, cb \in Callbacks : addEventListenerOnce(e, cb)
  \/ \E e \in Events : dispatchEvent(e)
  \/ invokeListener
  \/ finishDispatch
SpecListener == InitListener /\ [][ListenerNext]_vars

\* one Deferred and the calls of its resolve / reject
InitDefer == SegIdle /\ PlacingIdle /\ RasterIdle /\ UtilIdle
DeferNext ==
  \/ callDefer
  \/ \E v \in ResolveValues : resolve(v)
  \/ \E r \in RejectReasons : reject(r)
SpecDefer == InitDefer /\ [][DeferNext]_vars

\* asCoroutine applied to any generator, and calls of the function it returns
InitCoroutine ==
  SegIdle /\ PlacingIdle /\ RasterIdle /\ PartIdle /\ ListenIdle /\ DeferIdle /\ CoInit
CoroutineNext ==
  \/ callAsCoroutine
  \/ \E v \in SentValues : callCoroutine(v)
SpecCoroutine == InitCoroutine /\ [][CoroutineNext]_vars

(***************************************************************************)
(* Claims about SegmentList.vue                                            *)
(***************************************************************************)
\* C1: a segment whose locked flag is true never has its name or colour
\* changed and is never deleted by a step of the segment list.
C1_LockedNeverEdited ==
  [][\A g \in Groups, v \in Values :
       LET pre == getSegment(segs, g, v)
           post == getSegment(segs', g, v) IN
       (pre # NoSegment /\ pre.locked)
         => (post # NoSegment /\ post.name = pre.name /\ post.color = pre.color)]_vars

\* what the watcher must leave behind for the list now shown and the selection before
SelectionReset(list, before, after) ==
  /\ (Len(list) = 0 => after = Null)
  /\ (Len(list) > 0 => after \in SegValues(list))
  /\ (before \in SegValues(list) => after = before)
  /\ (before \notin SegValues(list) /\ Len(list) > 0 => after = list[1].value)

\* C8: each time the segments watcher has run (at mount, and after the list shown
\* changed by an add, delete, update or a change of groupId) the active segment is
\* a value of the list, or null for an empty list; a previous selection still in
\* the list is kept, otherwise the first segment is selected.
C8_SelectionReset ==
  /\ [](last.op = "mount" => SelectionReset(segments, last.arg, activeSegment))
  /\ [][segs'[groupId'] # segs[groupId]
         => SelectionReset(segs'[groupId'], activeSegment, activeSegment')]_vars

\* a segment was locked while the second segment of the list was selected: the
\* list changed, the watcher ran and kept the selection
C8_Witness ==
  /\ last.op = "toggleLock"
  /\ Len(segments) = 2
  /\ activeSegment = segments[2].value

(***************************************************************************)
(* Claims about PolygonTool.vue                                            *)
(***************************************************************************)
LockedValues(g) == {segs[g][i].value : i \in {k \in 1..Len(segs[g]) : segs[g][k].locked}}

\* C2: rasterize never overwrites a voxel of the active segment group's image
\* whose value is the value of a locked segment.
C2_LockedNeverPaintedOver ==
  [][(last'.op = "rasterize" /\ activeSegmentGroupID # NullId)
       => LET g == activeSegmentGroupID IN
          \A off \in DOMAIN dataIndex[g] :
            dataIndex[g][off] \in LockedValues(g) => dataIndex'[g][off] = dataIndex[g][off]]_vars

\* C3: a guard clause that fails returns without a store call and without a change
\* of state: toggleVisible / toggleLock on a value the group has no segment for,
\* rasterize without an active segment group or without its image, and
\* onToolPlaced without an imageId.
C3_GuardsReturnEarly ==
  [][/\ (last'.op \in {"toggleVisible", "toggleLock"}
           /\ getSegment(segs, groupId, last'.arg) = NoSegment)
          => (calls' = <<>> /\ UNCHANGED <<segVars, placingVars, rasterVars>>)
     /\ (last'.op = "rasterize"
           /\ (activeSegmentGroupID = NullId \/ dataIndex[activeSegmentGroupID] = NoImage))
          => (calls' = <<>> /\ UNCHANGED <<segVars, placingVars, rasterVars>>)
     /\ (last'.op = "onToolPlaced" /\ imageId = NullId)
          => (calls' = <<>> /\ UNCHANGED <<segVars, placingVars, rasterVars>>)]_vars

\* rasterize was called while the active segment group has no image in dataIndex
C3_Witness ==
  /\ last.op = "rasterize"
  /\ activeSegmentGroupID # NullId
  /\ dataIndex[activeSegmentGroupID] = NoImage
  /\ calls = <<>>

\* toggleVisible was called with a value the group has no segment for
C3_WitnessToggleVisible ==
  /\ last.op = "toggleVisible"
  /\ getSegment(segs, groupId, last.arg) = NoSegment
  /\ calls = <<>>

\* onToolPlaced was called without an imageId
C3_WitnessToolPlaced ==
  /\ last.op = "onToolPlaced"
  /\ imageId = NullId
  /\ calls = <<>>

PlacingTools == {t \in tools : t.placing}

\* C9: while mounted the component holds a placing tool exactly when the polygon
\* tool is the current tool and imageId is set; the store never holds more than
\* one placing tool, every add follows a remove or commit, and after unmount the
\* component holds none.
C9_PlacingToolLifecycle ==
  /\ mounted => ((placingToolID # NoTool) <=> (isToolActive(currentTool) /\ imageId # NullId))
  /\ Cardinality(PlacingTools) <= 1
  /\ placingToolID # NoTool => PlacingTools = {t \in tools : t.id = placingToolID}
  /\ placingToolID = NoTool => PlacingTools = {}
  /\ ~mounted => placingToolID = NoTool
  /\ \A i \in 1..Len(calls) :
       calls[i] = "add" => (i > 1 /\ calls[i - 1] \in {"remove", "commit"})

\* a polygon was placed: it is committed and a new placing tool is held
C9_Witness ==
  /\ mounted
  /\ last.op = "onToolPlaced"
  /\ placingToolID # NoTool
  /\ \E t \in tools : ~t.placing

\* after unmount nothing is held, with committed polygons left in the store
C9_WitnessUnmounted ==
  /\ ~mounted
  /\ last.op = "onUnmounted"
  /\ tools # {}

\* the voxel (i, j, k) stored at an offset of the scalars
VoxelIJK(off) ==
  <<Extent[1] + (off % Dimensions[1]),
    Extent[3] + ((off \div Dimensions[1]) % Dimensions[2]),
    Extent[5] + (off \div (Dimensions[1] * Dimensions[2]))>>

InExtent(ijk) ==
  \A d \in 1..3 : Extent[2 * d - 1] <= ijk[d] /\ ijk[d] <= Extent[2 * d]

\* the point of the volume a grid cell stands for
CellIJK(d0, d1) ==
  [d \in 1..3 |-> IF d = sliceAxis + 1 THEN slice
                 ELSE IF d = (IF sliceAxis = 0 THEN 2 ELSE 1) THEN d0 ELSE d1]

AttemptCoords == -1..2

\* C10: rasterize writes only voxels on the current slice and inside the extent,
\* each of them with segment.value; a write attempted outside the extent returns
\* false and changes nothing; every other image is left alone; image.modified()
\* is called once, after the fill.
C10_RasterizeFrame ==
  /\ [](\A g \in Groups : dataIndex[g] # NoImage =>
          \A d0 \in AttemptCoords, d1 \in AttemptCoords, v \in Values :
            LET r == setAtUnsafe(dataIndex[g], slice, sliceAxis, d0, d1, v) IN
            ~InExtent(CellIJK(d0, d1)) => (~r.ok /\ r.data = dataIndex[g]))
  /\ [][(last'.op = "rasterize" /\ activeSegmentGroupID # NullId
           /\ dataIndex[activeSegmentGroupID] # NoImage)
          => LET g == activeSegmentGroupID IN
             /\ \A off \in DOMAIN dataIndex[g] :
                  dataIndex'[g][off] # dataIndex[g][off]
                    => /\ VoxelIJK(off)[sliceAxis + 1] = slice
                       /\ InExtent(VoxelIJK(off))
                       /\ dataIndex'[g][off] = last'.arg
             /\ \A h \in Groups \ {g} : dataIndex'[h] = dataIndex[h]
             /\ calls' = <<"fillPoly", "modified">>]_vars

\* a polygon was rasterized on a slice across the first axis: some voxel of that
\* slice holds the segment's value and a voxel off the slice is still background
C10_Witness ==
  /\ last.op = "rasterize"
  /\ calls = <<"fillPoly", "modified">>
  /\ sliceAxis = 0
  /\ \E off \in DOMAIN dataIndex["g1"] :
       VoxelIJK(off)[1] = slice /\ dataIndex["g1"][off] = last.arg
  /\ \E off \in DOMAIN dataIndex["g1"] :
       VoxelIJK(off)[1] # slice /\ dataIndex["g1"][off] = Background

(***************************************************************************)
(* Claims about the utils                                                   *)
(***************************************************************************)
Count(e, s) == Cardinality({i \in 1..Len(s) : s[i] = e})

\* C4: partition returns [matching, rest]: matching holds the elements the
\* predicate holds for and rest the others, both in their original order, every
\* element in exactly one of them with its multiplicity, and arr is unchanged.
C4_Partition ==
  partitioned # <<>> =>
    /\ Len(partitioned) = 2
    /\ partitioned[1] = SelectSeq(partInput, LAMBDA e : e \in predicate)
    /\ partitioned[2] = SelectSeq(partInput, LAMBDA e : e \notin predicate)
    /\ \A e \in Elems :
         Count(e, partitioned[1]) + Count(e, partitioned[2]) = Count(e, partInput)
    /\ \A e \in Elems : Count(e, partitioned[1]) = 0 \/ Count(e, partitioned[2]) = 0
    /\ arr = partInput

\* a list with a repeated element was split into two non-empty sides
C4_Witness ==
  /\ partitioned # <<>>
  /\ Len(partitioned[1]) = 2
  /\ partitioned[1][1] = partitioned[1][2]
  /\ Len(partitioned[2]) = 1
  /\ partInput[2] = partitioned[2][1]

\* C5: callback runs at most once; it has run once whenever a dispatch of its
\* event made after the registration has returned; the handler is unregistered
\* when callback runs, so a dispatch made from inside callback does not run it again.
C5_ListensOnce ==
  \A h \in Handlers :
    /\ invoked[h] <= 1
    /\ invoked[h] = 1 => dispatched[h] >= 1
    /\ (dispatchStack = <<>> /\ dispatched[h] >= 1) => invoked[h] = 1
    /\ ~seenRegistered[h]
    /\ invoked[h] = 1 => ~InList(h, listeners)

\* a callback dispatched its own event again and still ran once
C5_Witness ==
  \E h \in Handlers :
    /\ registrations[h].callback = "redispatch"
    /\ invoked[h] = 1
    /\ dispatchCount = 2
    /\ dispatchStack = <<>>

\* the outcome a call of resolve / reject asks for
Asked(call) == [state |-> IF call.fn = "resolve" THEN "fulfilled" ELSE "rejected",
                value |-> call.arg]

\* C6: the promise of defer() is pending until resolve or reject is called; both
\* work as soon as defer() has returned; the first call fixes the outcome and
\* later calls leave it unchanged.
C6_DeferOutcome ==
  /\ deferReturned => (innerResolve /\ innerReject)
  /\ settleCalls = <<>> => promise = Pending
  /\ settleCalls # <<>> => promise = Asked(Head(settleCalls))

\* reject came first, then resolve: the promise stays rejected
C6_Witness ==
  /\ Len(settleCalls) = 3
  /\ settleCalls[1].fn = "reject"
  /\ settleCalls[2].fn = "resolve"
  /\ promise = [state |-> "rejected", value |-> settleCalls[1].arg]

\* what the j-th next() of a generator returns
StepResult(g, j) ==
  IF j <= Len(g.yields) THEN [value |-> g.yields[j], done |-> FALSE]
  ELSE IF j = Len(g.yields) + 1 THEN [value |-> g.ret, done |-> TRUE]
  ELSE [value |-> Undefined, done |-> TRUE]

Min(a, b) == IF a <= b THEN a ELSE b

\* C7: asCoroutine advances the generator once; if that step finished it, every
\* call returns that done result and the generator is not advanced again;
\* otherwise each call advances it once, its argument becoming the value of the
\* pending yield, and returns that step's result.
C7_Coroutine ==
  /\ coroutine.mode = "none" => gen.nexts = 0
  /\ coroutine.mode # "none" =>
       LET k == Len(coArgs) IN
       IF Len(gen.yields) = 0
       THEN /\ coroutine.mode = "done"
            /\ gen.nexts = 1
            /\ gen.received = <<>>
            /\ coroutine.result = StepResult(gen, 1)
            /\ k >= 1 => coReturned = StepResult(gen, 1)
       ELSE /\ coroutine.mode = "live"
            /\ coroutine.result = StepResult(gen, 1)
            /\ gen.nexts = 1 + k
            /\ gen.received = SubSeq(coArgs, 1, Min(k, Len(gen.yields)))
            /\ k >= 1 => coReturned = StepResult(gen, k + 1)

\* a generator with two yields was driven to its end and called once more
C7_Witness ==
  /\ coroutine.mode = "live"
  /\ Len(gen.yields) = 2
  /\ Len(coArgs) = 3
  /\ gen.received = <<"x", "y">>
  /\ coReturned = [value |-> Undefined, done |-> TRUE]

\* a generator without a yield was wrapped and the function called twice
C7_WitnessDone ==
  /\ coroutine.mode = "done"
  /\ Len(coArgs) = 2
  /\ coReturned = [value |-> ReturnValue, done |-> TRUE]

====
